---- MODULE Spec2Model ----
(***************************************************************************)
(* A model of mmap-tools: the in-memory topic tree (models.py), the markup *)
(* codec (reader.py, writer.py), the container writer (writer.py) and the  *)
(* outline codec (markdown.py).                                            *)
(*                                                                         *)
(* The module holds four state machines:                                   *)
(*   SpecTree   the Topic mutation API (add_child, remove, move_to)        *)
(*   SpecCodec  edit a map, encode it into a document, decode it again     *)
(*   SpecWrite  write() against a small file system, with crashes          *)
(*   SpecOutline  export a map as outline text, decode outline text        *)
(***************************************************************************)
EXTENDS Integers, Sequences, FiniteSets, TLC

VARIABLES
    \* ---- Topic tree (models.py), topics named by identity 1..MaxTopics
    parent,     \* Topic.parent: topic -> topic, None for a parentless topic
    children,   \* Topic.children: topic -> sequence of topics
    text,       \* Topic.text
    used,       \* the Topic objects constructed so far
    last,       \* the last call made: [op, topic, target, from, error]
    \* ---- Markup codec (reader.py, writer.py)
    cmap,       \* the MindMap being edited: [root, source]
    cdoc,       \* the document written from it (none before the write)
    cback,      \* the root Topic decoded from cdoc (none before the read)
    cpc,        \* where the session stands: "start", "edit", "written", "read", ...
    cedits,     \* the number of edits made to cmap
    \* ---- write() and the file system (writer.py)
    fs,         \* path -> file
    fs0,        \* fs when write() was called
    wcall,      \* the arguments of the call: [root, source, dest, backup]
    wpc,        \* where write() stands
    wfiles,     \* original_files: entry name -> bytes, in memory
    wlog,       \* what the call did so far: "copy", "read", "truncate", "write"
    \* ---- Outline codec (markdown.py)
    omd,        \* the outline text in hand: a sequence of lines
    oback       \* the MindMap decoded from omd (none before the decode)

treeVars == <<parent, children, text, used, last>>

codecVars == <<cmap, cdoc, cback, cpc, cedits>>

writeVars == <<fs, fs0, wcall, wpc, wfiles, wlog>>

outlineVars == <<omd, oback>>

vars == <<treeVars, codecVars, writeVars, outlineVars>>

-----------------------------------------------------------------------------
(* Topic tree: models.py                                                   *)

MaxTopics == 3

TopicIds == 1..MaxTopics

None == 0

TopicTexts == {"a", "B"}

\* MindMap.root: the Topic made by the MindMap() default factory.
MapRoot == 1

\* The object a constructor call returns: a fresh identity.
NewId == CHOOSE i \in TopicIds \ used : \A j \in TopicIds \ used : i <= j

\* [c for c in seq if c is not t]
Without(seq, t) == SelectSeq(seq, LAMBDA c : c # t)

\* The number of occurrences of t in seq.
Occurrences(seq, t) == Cardinality({i \in DOMAIN seq : seq[i] = t})

\* The concatenation of a sequence of sequences.
RECURSIVE Flatten(_)
Flatten(ss) == IF ss = <<>> THEN <<>> ELSE Head(ss) \o Flatten(Tail(ss))

\* sum(seq)
RECURSIVE SumSeq(_)
SumSeq(s) == IF s = <<>> THEN 0 ELSE Head(s) + SumSeq(Tail(s))

\* Topic.remove as a function of the links: [par, chi] -> [par, chi].
TopicRemove(par, chi, t) ==
    IF par[t] # None
    THEN [par |-> [par EXCEPT ![t] = None],
          chi |-> [chi EXCEPT ![par[t]] = Without(chi[par[t]], t)]]
    ELSE [par |-> par, chi |-> chi]

\* A move_to that forgets to detach the topic from its former parent.
TopicMoveToNoRemove(par, chi, t, np) ==
    [par |-> [par EXCEPT ![t] = np],
     chi |-> [chi EXCEPT ![np] = Append(chi[np], t)]]

\* Topic.move_to as a function of the links: remove, set parent, append.
TopicMoveTo(par, chi, t, np) ==
    LET r == TopicRemove(par, chi, t)
    IN  [par |-> [r.par EXCEPT ![t] = np],
         chi |-> [r.chi EXCEPT ![np] = Append(r.chi[np], t)]]

\* The topic reached from t by k parent links (None once the chain has ended).
RECURSIVE ParentIter(_, _, _)
ParentIter(par, t, k) ==
    IF k = 0 \/ t = None THEN t ELSE ParentIter(par, par[t], k - 1)

\* The proper ancestors of t: what Topic.depth and Topic.path walk over.
Ancestors(par, t) == {ParentIter(par, t, k) : k \in 1..MaxTopics} \ {None}

\* The topics Topic.walk visits from t, as a set: t and all it reaches
\* through children sequences.
RECURSIVE ChildReach(_, _, _)
ChildReach(chi, seen, k) ==
    IF k = 0 THEN seen
    ELSE ChildReach(chi,
                    seen \cup UNION {{chi[s][i] : i \in DOMAIN chi[s]} : s \in seen},
                    k - 1)

Subtree(chi, t) == ChildReach(chi, {t}, MaxTopics)

\* str.lower on the texts of the model.
Lower(s) == CASE s = "A" -> "a" [] s = "B" -> "b" [] OTHER -> s

\* A walk that yields a topic after its descendants.
RECURSIVE walk_children_first(_, _, _)
walk_children_first(chi, t, fuel) ==
    IF fuel = 0 THEN <<>>
    ELSE Flatten([i \in DOMAIN chi[t] |-> walk_children_first(chi, chi[t][i], fuel - 1)])
         \o <<t>>

\* Topic.walk: the topics the generator yields, in order.  On a cycle of
\* children the recursion of the code does not end; here it is cut after
\* fuel levels, and MaxTopics levels are more than a tree without cycle has.
RECURSIVE walk(_, _, _)
walk(chi, t, fuel) ==
    IF fuel = 0 THEN <<>>
    ELSE <<t>> \o Flatten([i \in DOMAIN chi[t] |-> walk(chi, chi[t][i], fuel - 1)])

\* Topic.count: sum(1 for _ in self.walk())
count(chi, t) == SumSeq([i \in DOMAIN walk(chi, t, MaxTopics) |-> 1])

RECURSIVE find(_, _, _, _, _)

\* A search of the children that starts from the last child.
RECURSIVE FindInFromLast(_, _, _, _, _)
FindInFromLast(chi, txt, kids, q, fuel) ==
    IF kids = <<>> THEN None
    ELSE LET found == find(chi, txt, kids[Len(kids)], q, fuel - 1)
         IN  IF found # None THEN found
             ELSE FindInFromLast(chi, txt, SubSeq(kids, 1, Len(kids) - 1), q, fuel)

\* The loop of Topic.find over the children: the first child whose find
\* returns a topic decides.
RECURSIVE FindIn(_, _, _, _, _)
FindIn(chi, txt, kids, q, fuel) ==
    IF kids = <<>> THEN None
    ELSE LET found == find(chi, txt, Head(kids), q, fuel - 1)
         IN  IF found # None THEN found ELSE FindIn(chi, txt, Tail(kids), q, fuel)

\* Topic.find: the topic found, None when there is none; cut like walk.
find(chi, txt, t, q, fuel) ==
    IF fuel = 0 THEN None
    ELSE IF Lower(txt[t]) = Lower(q) THEN t
    ELSE FindIn(chi, txt, chi[t], q, fuel)

\* Topic.find_all: [t for t in self.walk() if t.text.lower() == text.lower()]
find_all(chi, txt, t, q) ==
    SelectSeq(walk(chi, t, MaxTopics), LAMBDA s : Lower(txt[s]) = Lower(q))

\* The texts searched for.
Queries == {"", "a", "A", "b", "c"}

NoCall ==
    [op |-> "none", topic |-> None, target |-> None, from |-> None, error |-> "none"]

TreeInit ==
    /\ parent = [t \in TopicIds |-> None]
    /\ children = [t \in TopicIds |-> <<>>]
    /\ text = [t \in TopicIds |-> ""]
    /\ used = {MapRoot}
    /\ last = NoCall

\* Topic(text=txt): a parentless topic built by explicit construction.
NewTopic(txt) ==
    /\ used # TopicIds
    /\ used' = used \cup {NewId}
    /\ text' = [text EXCEPT ![NewId] = txt]
    /\ last' = [op |-> "new", topic |-> NewId, target |-> None, from |-> None,
                error |-> "none"]
    /\ UNCHANGED <<parent, children>>
    /\ UNCHANGED <<codecVars, writeVars, outlineVars>>

\* p.add_child(txt)
AddChild(p, txt) ==
    /\ p \in used
    /\ used # TopicIds
    /\ used' = used \cup {NewId}
    /\ text' = [text EXCEPT ![NewId] = txt]
    /\ parent' = [parent EXCEPT ![NewId] = p]
    /\ children' = [children EXCEPT ![p] = Append(@, NewId)]
    /\ last' = [op |-> "add_child", topic |-> NewId, target |-> p, from |-> None,
                error |-> "none"]
    /\ UNCHANGED <<codecVars, writeVars, outlineVars>>

\* t.remove()
Remove(t) ==
    /\ t \in used
    /\ LET r == TopicRemove(parent, children, t)
       IN  /\ parent' = r.par
           /\ children' = r.chi
    /\ last' = [op |-> "remove", topic |-> t, target |-> None, from |-> parent[t],
                error |-> "none"]
    /\ UNCHANGED <<text, used>>
    /\ UNCHANGED <<codecVars, writeVars, outlineVars>>

\* t.move_to(np); the code has no guard and raises nothing.
MoveTo(t, np) ==
    /\ t \in used
    /\ np \in used
    /\ LET r == TopicMoveTo(parent, children, t, np)
       IN  /\ parent' = r.par
           /\ children' = r.chi
    /\ last' = [op |-> "move_to", topic |-> t, target |-> np, from |-> parent[t],
                error |-> "none"]
    /\ UNCHANGED <<text, used>>
    /\ UNCHANGED <<codecVars, writeVars, outlineVars>>

TreeNext ==
    \/ \E txt \in TopicTexts : NewTopic(txt)
    \/ \E p \in TopicIds, txt \in TopicTexts : AddChild(p, txt)
    \/ \E t \in TopicIds : Remove(t)
    \/ \E t \in TopicIds, np \in TopicIds : MoveTo(t, np)

-----------------------------------------------------------------------------
(* Values of the markup codec: models.py, reader.py, writer.py             *)
(*                                                                         *)
(* An Optional[X] field is a sequence of length 0 (None) or 1.  A dict or  *)
(* an attribute set is a function from its keys.  A Topic of the codec is  *)
(* a nested record: its children are Topic records, and its parent is the  *)
(* record that holds it.  Icon markers and notes are left out: they share  *)
(* no markup with the fields modelled here.                                *)

Absent == <<>>

Some(v) == <<v>>

EmptyDict == [k \in {} |-> ""]

\* dict.get(k, dflt) and Element.get(k, dflt)
Get(f, k, dflt) == IF k \in DOMAIN f THEN f[k] ELSE dflt

\* Element.set(k, v)
Set(f, k, v) == [x \in DOMAIN f \cup {k} |-> IF x = k THEN v ELSE f[x]]

\* ---- datetime

MaxDay == 2

Days == 1..MaxDay

Seconds == 0..1

Micros == {0, 500000}

\* datetime values: a day of January 2025, a second of its first minute and a
\* microsecond.
Datetimes == [day : Days, sec : Seconds, usec : Micros]

\* datetime.strftime("%Y-%m-%dT%H:%M:%S"): no microsecond field.
strftime(dt) == "2025-01-0" \o ToString(dt.day) \o "T00:00:0" \o ToString(dt.sec)

\* datetime.strptime(s, fmt) for the three formats of _parse_date, each
\* Some(datetime) or Absent for ValueError.
strptime_datetime(s) ==
    LET hits == {dt \in Datetimes : dt.usec = 0 /\ strftime(dt) = s}
    IN  IF hits = {} THEN Absent ELSE Some(CHOOSE dt \in hits : TRUE)

strptime_date(s) ==
    LET hits == {d \in Days : "2025-01-0" \o ToString(d) = s}
    IN  IF hits = {} THEN Absent
        ELSE Some([day |-> CHOOSE d \in hits : TRUE, sec |-> 0, usec |-> 0])

strptime_us(s) ==
    LET hits == {d \in Days : "01/0" \o ToString(d) \o "/2025" = s}
    IN  IF hits = {} THEN Absent
        ELSE Some([day |-> CHOOSE d \in hits : TRUE, sec |-> 0, usec |-> 0])

\* reader._parse_date: the first format that parses wins, else None.
parse_date(s) ==
    IF strptime_datetime(s) # Absent THEN strptime_datetime(s)
    ELSE IF strptime_date(s) # Absent THEN strptime_date(s)
    ELSE strptime_us(s)

\* ---- Task

\* TaskPriority: member name -> value.
TaskPriority == [NONE |-> "", HIGH |-> "1", MEDIUM |-> "2", LOW |-> "3"]

\* TaskPriority(pri): the member with that value, Absent for ValueError.
PriorityOf(pri) ==
    LET hits == {n \in DOMAIN TaskPriority : TaskPriority[n] = pri}
    IN  IF hits = {} THEN Absent ELSE Some(CHOOSE n \in hits : TRUE)

\* The percentages a Task holds in this model.
Percentages == {-5, 0, 49, 50, 100, 150}

\* int(float(pct)): truncation toward zero; Absent for ValueError.
IntOfFloat(pct) ==
    LET hits == {n \in Percentages : ToString(n) = pct}
    IN  IF hits # {} THEN Some(CHOOSE n \in hits : TRUE)
        ELSE IF pct = "49.9" THEN Some(49)
        ELSE IF pct = "-0.5" THEN Some(0)
        ELSE Absent

\* Task(): the dataclass defaults.
NewTask == [percentage |-> 0, priority |-> "NONE", due_date |-> Absent,
            start_date |-> Absent]

\* A status that takes a task for complete only above 100.
status_above_100(task) ==
    IF task.percentage > 100 THEN "COMPLETE"
    ELSE IF task.percentage > 0 THEN "IN_PROGRESS"
    ELSE "NOT_STARTED"

\* Task.status: the name of the TaskStatus member.
status(task) ==
    IF task.percentage >= 100 THEN "COMPLETE"
    ELSE IF task.percentage > 0 THEN "IN_PROGRESS"
    ELSE "NOT_STARTED"

\* reader._parse_task
parse_task(elem) ==
    LET pct   == Get(elem, "TaskPercentage", "")
        pri   == Get(elem, "TaskPriority", "")
        due   == Get(elem, "TaskDueDate", "")
        start == Get(elem, "TaskStartDate", "")
    IN  [percentage |-> IF pct # "" /\ IntOfFloat(pct) # Absent
                        THEN IntOfFloat(pct)[1] ELSE 0,
         priority   |-> IF PriorityOf(pri) # Absent THEN PriorityOf(pri)[1] ELSE "NONE",
         due_date   |-> IF due # "" THEN parse_date(due) ELSE Absent,
         start_date |-> IF start # "" THEN parse_date(start) ELSE Absent]

\* writer._build_task_elem: the attributes of the Task element.
build_task_elem(task) ==
    LET a1 == IF task.percentage > 0
              THEN Set(EmptyDict, "TaskPercentage", ToString(task.percentage))
              ELSE EmptyDict
        a2 == IF task.priority # "NONE"
              THEN Set(a1, "TaskPriority", TaskPriority[task.priority]) ELSE a1
        a3 == IF task.due_date # Absent
              THEN Set(a2, "TaskDueDate", strftime(task.due_date[1])) ELSE a2
    IN  IF task.start_date # Absent
        THEN Set(a3, "TaskStartDate", strftime(task.start_date[1])) ELSE a3

\* ---- Topic and its element

\* Topic(text=txt): the dataclass defaults.
NewTopicRec(txt) ==
    [oid |-> "", text |-> txt, children |-> <<>>, task |-> Absent,
     hyperlinks |-> <<>>, style_xml |-> Absent, raw_attribs |-> EmptyDict]

\* An element of tag Topic: its attributes and, by tag, its child elements in
\* document order (Text, Task, Hyperlink: attribute sets; HyperlinkGroup: the
\* Hyperlink children of each group; SubTopicShape: each one's serialization;
\* SubTopics: the Topic children of each).
TopicElem(attrib, txt, task, hl, group, shape, subs) ==
    [attrib |-> attrib, Text |-> txt, Task |-> task, Hyperlink |-> hl,
     HyperlinkGroup |-> group, SubTopicShape |-> shape, SubTopics |-> subs]

\* Hyperlink(url=..., text=...) from a Hyperlink element.
parse_hyperlink(a) == [url |-> Get(a, "Url", ""), text |-> Get(a, "Text", "")]

\* A Hyperlink element written without its Url attribute.
build_hyperlink_no_url(hl) ==
    IF hl.text # "" THEN Set(EmptyDict, "Text", hl.text) ELSE EmptyDict

\* The Hyperlink element of a Hyperlink.
build_hyperlink(hl) ==
    IF hl.text # "" THEN Set(Set(EmptyDict, "Url", hl.url), "Text", hl.text)
    ELSE Set(EmptyDict, "Url", hl.url)

\* A decoder that keeps the identifier out of the bag.
RawAttribsDropId(elem) == [k \in DOMAIN elem.attrib \ {"OId"} |-> elem.attrib[k]]

\* reader._parse_topic: topic._raw_attribs = dict(elem.attrib)
RawAttribs(elem) == elem.attrib

\* reader._parse_topic
RECURSIVE parse_topic(_)
parse_topic(elem) ==
    [oid         |-> Get(elem.attrib, "OId", ""),
     raw_attribs |-> RawAttribs(elem),
     text        |-> IF elem.Text # <<>> THEN Get(elem.Text[1], "PlainText", "") ELSE "",
     task        |-> IF elem.Task # <<>> THEN Some(parse_task(elem.Task[1])) ELSE Absent,
     hyperlinks  |->
        (IF elem.Hyperlink # <<>> THEN <<parse_hyperlink(elem.Hyperlink[1])>> ELSE <<>>)
        \o (IF elem.HyperlinkGroup # <<>>
            THEN [i \in DOMAIN elem.HyperlinkGroup[1] |->
                     parse_hyperlink(elem.HyperlinkGroup[1][i])]
            ELSE <<>>),
     style_xml   |-> IF elem.SubTopicShape # <<>> THEN Some(elem.SubTopicShape[1])
                     ELSE Absent,
     children    |-> IF elem.SubTopics # <<>>
                     THEN [i \in DOMAIN elem.SubTopics[1] |->
                              parse_topic(elem.SubTopics[1][i])]
                     ELSE <<>>]

\* str(uuid.uuid4()).upper(): an identifier no other topic of the document
\* has; here one per position in the tree.
RECURSIVE PathString(_)
PathString(path) ==
    IF path = <<>> THEN "" ELSE "-" \o ToString(path[1]) \o PathString(Tail(path))

Uuid4(path) == "UUID" \o PathString(path)

\* writer._build_topic_elem, for the topic at position path of the tree.
RECURSIVE build_topic_elem(_, _)
build_topic_elem(topic, path) ==
    LET oid  == IF topic.oid # "" THEN topic.oid ELSE Uuid4(path)
        keys == DOMAIN topic.raw_attribs \ {"OId"}
    IN  TopicElem(
            [k \in keys \cup {"OId"} |-> IF k = "OId" THEN oid ELSE topic.raw_attribs[k]],
            IF topic.text # "" THEN <<Set(EmptyDict, "PlainText", topic.text)>> ELSE <<>>,
            IF topic.task # Absent THEN <<build_task_elem(topic.task[1])>> ELSE <<>>,
            IF Len(topic.hyperlinks) = 1 THEN <<build_hyperlink(topic.hyperlinks[1])>>
            ELSE <<>>,
            IF Len(topic.hyperlinks) > 1
            THEN <<[i \in DOMAIN topic.hyperlinks |-> build_hyperlink(topic.hyperlinks[i])]>>
            ELSE <<>>,
            <<>>,
            IF topic.children # <<>>
            THEN <<[i \in DOMAIN topic.children |->
                      build_topic_elem(topic.children[i], Append(path, i))]>>
            ELSE <<>>)

\* ---- Document.xml

\* A document: the Topic children of each OneTopic element, in document
\* order, and everything else of the document as one opaque value.
Document(oneTopics, rest) == [OneTopic |-> oneTopics, rest |-> rest]

\* reader.read from the document on: Some(root topic), or Absent for the
\* ValueError of a missing OneTopic or root Topic.
read_document(doc) ==
    IF doc.OneTopic = <<>> THEN Absent
    ELSE IF doc.OneTopic[1] = <<>> THEN Absent
    ELSE Some(parse_topic(doc.OneTopic[1][1]))

\* writer._update_existing from the source document on: the first Topic of
\* the first OneTopic is removed and the new one appended; Absent for the
\* ValueError of a missing OneTopic.
update_document(doc, root) ==
    IF doc.OneTopic = <<>> THEN Absent
    ELSE LET one  == doc.OneTopic[1]
             kept == IF one # <<>> THEN Tail(one) ELSE one
         IN  Some([doc EXCEPT !.OneTopic[1] =
                      Append(kept, build_topic_elem(root, <<>>))])

\* writer._create_new: a Map with one OneTopic holding the root Topic.
create_document(root) == Document(<<<<build_topic_elem(root, <<>>)>>>>, "")

-----------------------------------------------------------------------------
(* The codec state machine: make a map (new, or read from a source         *)
(* document), edit it, write it, read the written document.                *)

MaxEdits == 2

\* The positions of the topics of a tree: child indices from the root down.
RECURSIVE Paths(_)
Paths(topic) ==
    {<<>>} \cup UNION {{<<i>> \o p : p \in Paths(topic.children[i])} :
                          i \in DOMAIN topic.children}

RECURSIVE NodeAt(_, _)
NodeAt(topic, path) ==
    IF path = <<>> THEN topic ELSE NodeAt(topic.children[path[1]], Tail(path))

\* The tree with the topic at path replaced by new.
RECURSIVE ReplaceAt(_, _, _)
ReplaceAt(topic, path, new) ==
    IF path = <<>> THEN new
    ELSE [topic EXCEPT !.children[path[1]] = ReplaceAt(@, Tail(path), new)]

\* ---- source documents

BaseElem ==
    TopicElem(Set(EmptyDict, "OId", "X1"), <<Set(EmptyDict, "PlainText", "A")>>,
              <<>>, <<>>, <<>>, <<>>, <<>>)

SourceAttribs ==
    {EmptyDict, Set(EmptyDict, "Dirty", "1"), Set(Set(EmptyDict, "OId", "X1"), "Dirty", "1")}

SourceTexts == {<<>>, <<EmptyDict>>}

PercentageStrings == {"0", "50", "100", "150", "-5", "49.9", "-0.5", "abc"}

PriorityStrings == {"1", "2", "3", "9"}

DateStrings == {"2025-01-01T00:00:01", "2025-01-02", "01/02/2025", "soon"}

SourceTasks ==
    {EmptyDict}
    \cup {Set(EmptyDict, "TaskPercentage", s) : s \in PercentageStrings}
    \cup {Set(EmptyDict, "TaskPriority", s) : s \in PriorityStrings}
    \cup {Set(EmptyDict, "TaskDueDate", s) : s \in DateStrings}
    \cup {Set(Set(EmptyDict, "TaskStartDate", s), "TaskPercentage", "50") : s \in DateStrings}

Link(url) == Set(EmptyDict, "Url", url)

StyleBlob == "<SubTopicShape SubTopicShape=\"urn:mindjet:Oval\"/>"

SourceLeaves ==
    {BaseElem}
    \cup {[BaseElem EXCEPT !.attrib = a] : a \in SourceAttribs}
    \cup {[BaseElem EXCEPT !.Text = t] : t \in SourceTexts}
    \cup {[BaseElem EXCEPT !.Task = <<t>>] : t \in SourceTasks}
    \cup {[BaseElem EXCEPT !.Hyperlink = <<Link("u1")>>],
          [BaseElem EXCEPT !.Hyperlink = <<Set(Link("u1"), "Text", "t")>>],
          [BaseElem EXCEPT !.HyperlinkGroup = <<<<Link("u1"), Link("u2")>>>>],
          [BaseElem EXCEPT !.Hyperlink = <<Link("u1")>>,
                           !.HyperlinkGroup = <<<<Link("u2"), Link("u1")>>>>]}
    \cup {[BaseElem EXCEPT !.SubTopicShape = <<StyleBlob>>]}

SourceNested ==
    {[BaseElem EXCEPT !.attrib = Set(@, "Dirty", "1"),
                      !.SubTopics = <<<<c, [BaseElem EXCEPT !.attrib = EmptyDict]>>>>] :
        c \in {BaseElem,
               [BaseElem EXCEPT !.SubTopicShape = <<StyleBlob>>,
                                !.Task = <<Set(EmptyDict, "TaskPercentage", "50")>>]}}

\* The documents a map is read from: well-formed ones, one with two Topic
\* elements under OneTopic, one with two OneTopic elements, and the two
\* that read rejects.
SourceDocs ==
    {Document(<<<<e>>>>, "meta") : e \in SourceLeaves \cup SourceNested}
    \cup {Document(<<<<BaseElem, [BaseElem EXCEPT !.Text = <<>>]>>>>, "meta"),
          Document(<<<<BaseElem>>, <<[BaseElem EXCEPT !.Text = <<>>]>>>>, "meta"),
          Document(<<>>, "meta"),
          Document(<<<<>>>>, "meta")}

\* ---- the map

\* MindMap(): root Topic(), title "", no source path.
NewMindMap == [root |-> NewTopicRec(""), title |-> "", source |-> Absent]

CodecIdle ==
    /\ cmap = NewMindMap
    /\ cdoc = Absent
    /\ cback = Absent
    /\ cpc = "start"
    /\ cedits = 0

\* m = MindMap()
NewMap ==
    /\ cpc = "start"
    /\ cpc' = "edit"
    /\ UNCHANGED <<cmap, cdoc, cback, cedits>>
    /\ UNCHANGED <<treeVars, writeVars, outlineVars>>

\* m = read(path), path holding a container whose document is doc.
ReadSource(doc) ==
    /\ cpc = "start"
    /\ IF read_document(doc) = Absent
       THEN /\ cpc' = "failed"
            /\ UNCHANGED cmap
       ELSE /\ cpc' = "edit"
            /\ cmap' = [root   |-> read_document(doc)[1],
                        title  |-> read_document(doc)[1].text,
                        source |-> Some(doc)]
    /\ UNCHANGED <<cdoc, cback, cedits>>
    /\ UNCHANGED <<treeVars, writeVars, outlineVars>>

\* One edit of the topic at path, which becomes new.
Edit(path, new) ==
    /\ cpc = "edit"
    /\ cedits < MaxEdits
    /\ cedits' = cedits + 1
    /\ cmap' = [cmap EXCEPT !.root = ReplaceAt(@, path, new)]
    /\ UNCHANGED <<cdoc, cback, cpc>>
    /\ UNCHANGED <<treeVars, writeVars, outlineVars>>

\* topic.add_child(txt)
EditAddChild(path, txt) ==
    LET t == NodeAt(cmap.root, path)
    IN  Edit(path, [t EXCEPT !.children = Append(@, NewTopicRec(txt))])

\* topic.text = txt
EditSetText(path, txt) ==
    LET t == NodeAt(cmap.root, path)
    IN  Edit(path, [t EXCEPT !.text = txt])

\* topic.task = Task()
EditSetTask(path) ==
    LET t == NodeAt(cmap.root, path)
    IN  Edit(path, [t EXCEPT !.task = Some(NewTask)])

\* topic.task.percentage = v
EditSetPercentage(path, v) ==
    LET t == NodeAt(cmap.root, path)
    IN  /\ t.task # Absent
        /\ Edit(path, [t EXCEPT !.task[1].percentage = v])

\* topic.task.priority = TaskPriority.<pr>
EditSetPriority(path, pr) ==
    LET t == NodeAt(cmap.root, path)
    IN  /\ t.task # Absent
        /\ Edit(path, [t EXCEPT !.task[1].priority = pr])

\* topic.task.due_date = dt
EditSetDueDate(path, dt) ==
    LET t == NodeAt(cmap.root, path)
    IN  /\ t.task # Absent
        /\ Edit(path, [t EXCEPT !.task[1].due_date = Some(dt)])

\* topic.task.start_date = dt
EditSetStartDate(path, dt) ==
    LET t == NodeAt(cmap.root, path)
    IN  /\ t.task # Absent
        /\ Edit(path, [t EXCEPT !.task[1].start_date = Some(dt)])

\* topic.hyperlinks.append(Hyperlink(url=url))
EditAddHyperlink(path, url) ==
    LET t == NodeAt(cmap.root, path)
    IN  Edit(path, [t EXCEPT !.hyperlinks = Append(@, [url |-> url, text |-> ""])])

\* write(m, path) when m._source_path is set and exists: _update_existing.
WriteUpdate ==
    /\ cpc = "edit"
    /\ cmap.source # Absent
    /\ IF update_document(cmap.source[1], cmap.root) = Absent
       THEN /\ cpc' = "failed"
            /\ UNCHANGED cdoc
       ELSE /\ cpc' = "written"
            /\ cdoc' = update_document(cmap.source[1], cmap.root)
    /\ UNCHANGED <<cmap, cback, cedits>>
    /\ UNCHANGED <<treeVars, writeVars, outlineVars>>

\* write(m, path) when m._source_path is empty or missing on disk: _create_new.
WriteCreate ==
    /\ cpc = "edit"
    /\ cpc' = "written"
    /\ cdoc' = Some(create_document(cmap.root))
    /\ UNCHANGED <<cmap, cback, cedits>>
    /\ UNCHANGED <<treeVars, writeVars, outlineVars>>

\* read(path) of the container just written.
ReadBack ==
    /\ cpc = "written"
    /\ IF read_document(cdoc[1]) = Absent
       THEN /\ cpc' = "failed"
            /\ UNCHANGED cback
       ELSE /\ cpc' = "read"
            /\ cback' = read_document(cdoc[1])
    /\ UNCHANGED <<cmap, cdoc, cedits>>
    /\ UNCHANGED <<treeVars, writeVars, outlineVars>>

CodecNext ==
    \/ NewMap
    \/ \E doc \in SourceDocs : ReadSource(doc)
    \/ \E path \in Paths(cmap.root) : EditAddChild(path, "C")
    \/ \E path \in Paths(cmap.root), txt \in {"", "B"} : EditSetText(path, txt)
    \/ \E path \in Paths(cmap.root) : EditSetTask(path)
    \/ \E path \in Paths(cmap.root), v \in Percentages : EditSetPercentage(path, v)
    \/ \E path \in Paths(cmap.root), pr \in DOMAIN TaskPriority :
          EditSetPriority(path, pr)
    \/ \E path \in Paths(cmap.root), dt \in Datetimes : EditSetDueDate(path, dt)
    \/ \E path \in Paths(cmap.root), dt \in Datetimes : EditSetStartDate(path, dt)
    \/ \E path \in Paths(cmap.root), url \in {"u1", "u2"} : EditAddHyperlink(path, url)
    \/ WriteUpdate
    \/ WriteCreate
    \/ ReadBack

-----------------------------------------------------------------------------
(* The outline codec: markdown.py                                          *)
(*                                                                         *)
(* Outline text is a sequence of lines ("\n".join on encode, split("\n")   *)
(* on decode; no text of the model holds a line break).  A line is a       *)
(* sequence of tokens: a token is one character of the markup (" ", "#",   *)
(* "-") or a run of characters the codec handles as a unit (a checkbox, a  *)
(* glyph, a date, a percentage, a link, a topic text).  Notes are left     *)
(* out, as in the markup codec.                                            *)

Space == " "

Checked == "[x]"

Unchecked == "[ ]"

\* priority_map: the glyph of each priority that has one.
PriorityGlyph == [HIGH |-> "{high}", MEDIUM |-> "{medium}", LOW |-> "{low}"]

\* The calendar glyph that introduces a due date.
Calendar == "{due}"

\* f"({t.percentage}%)"
PctToken(n) == "(" \o ToString(n) \o "%)"

Urls == {"u1", "u2"}

\* f"[{link glyph}]({hl.url})"
LinkToken(url) == "[{link}](" \o url \o ")"

\* A date-shaped run of digits that names no day of the calendar.
BadDate == "2025-13-41"

\* datetime.strftime('%Y-%m-%d'): the time of day is not written.
strftime_date(dt) == "2025-01-0" \o ToString(dt.day)

\* The tokens of a topic text.
Chars(txt) == IF txt = "" THEN <<>> ELSE <<txt>>

\* The string a sequence of tokens spells.
RECURSIVE Join(_)
Join(s) == IF s = <<>> THEN "" ELSE Head(s) \o Join(Tail(s))

Drop(s, n) == SubSeq(s, n + 1, Len(s))

StartsWith(s, prefix) ==
    Len(s) >= Len(prefix) /\ SubSeq(s, 1, Len(prefix)) = prefix

\* str.lstrip, str.rstrip, str.strip
RECURSIVE LStrip(_)
LStrip(s) == IF s # <<>> /\ Head(s) = Space THEN LStrip(Tail(s)) ELSE s

RECURSIVE RStrip(_)
RStrip(s) ==
    IF s # <<>> /\ s[Len(s)] = Space THEN RStrip(SubSeq(s, 1, Len(s) - 1)) ELSE s

Strip(s) == RStrip(LStrip(s))

\* " ".join(parts)
RECURSIVE JoinSpace(_)
JoinSpace(parts) ==
    IF parts = <<>> THEN <<>>
    ELSE IF Len(parts) = 1 THEN parts[1]
    ELSE parts[1] \o <<Space>> \o JoinSpace(Tail(parts))

\* "  " * depth
RECURSIVE Indent(_)
Indent(depth) == IF depth = 0 THEN <<>> ELSE <<Space, Space>> \o Indent(depth - 1)

\* MindMap.topic_count of the codec's nested topics: root.count().
RECURSIVE topic_count(_)
topic_count(topic) ==
    1 + SumSeq([i \in DOMAIN topic.children |-> topic_count(topic.children[i])])

\* ---- encode

\* markdown._topic_to_md: the lines of a topic and of its descendants.
RECURSIVE topic_to_md(_, _)
topic_to_md(topic, depth) ==
    LET t          == topic.task[1]
        checkbox   == IF topic.task = Absent THEN <<>>
                      ELSE IF status(t) = "COMPLETE" THEN <<Checked, Space>>
                      ELSE <<Unchecked, Space>>
        meta_parts == IF topic.task = Absent THEN <<>>
                      ELSE (IF t.priority \in DOMAIN PriorityGlyph
                            THEN << <<PriorityGlyph[t.priority]>> >> ELSE <<>>)
                           \o (IF t.due_date # Absent
                               THEN << <<Calendar, Space, strftime_date(t.due_date[1])>> >>
                               ELSE <<>>)
                           \o (IF t.percentage > 0 /\ t.percentage < 100
                               THEN << <<PctToken(t.percentage)>> >> ELSE <<>>)
        task_meta  == IF meta_parts # <<>> THEN <<Space>> \o JoinSpace(meta_parts)
                      ELSE <<>>
        links      == [i \in DOMAIN topic.hyperlinks |->
                          <<LinkToken(topic.hyperlinks[i].url)>>]
        link_text  == IF links # <<>> THEN <<Space>> \o JoinSpace(links) ELSE <<>>
        line       == Indent(depth) \o <<"-", Space>> \o checkbox \o Chars(topic.text)
                      \o task_meta \o link_text
    IN  <<line>> \o Flatten([i \in DOMAIN topic.children |->
                                topic_to_md(topic.children[i], depth + 1)])

\* The lines of one branch: its heading, a blank line, its items, a blank line.
BranchLines(branch) ==
    << <<"#", "#", Space>> \o Chars(branch.text), <<>> >>
    \o Flatten([i \in DOMAIN branch.children |-> topic_to_md(branch.children[i], 0)])
    \o << <<>> >>

\* The frontmatter block.
Frontmatter(mindmap) ==
    << <<"---">>, <<"title: \"">> \o Chars(mindmap.root.text) \o <<"\"">> >>
    \o (IF mindmap.source # Absent THEN << <<"source: \"path\"">> >> ELSE <<>>)
    \o << <<"exported: \"now\"">>,
          <<"topics:", Space, ToString(topic_count(mindmap.root))>>,
          <<"---">>, <<>> >>

\* markdown.to_markdown
to_markdown(mindmap, include_frontmatter) ==
    (IF include_frontmatter THEN Frontmatter(mindmap) ELSE <<>>)
    \o << <<"#", Space>> \o Chars(mindmap.root.text), <<>> >>
    \o Flatten([i \in DOMAIN mindmap.root.children |->
                   BranchLines(mindmap.root.children[i])])

\* ---- decode

\* re.search(r"{due}\s*(\d{4}-\d{2}-\d{2})", text): the first calendar glyph
\* that spaces and then a date-shaped token follow; [start, end] or Absent.
DateShaped(tok) == tok = BadDate \/ \E d \in Days : tok = "2025-01-0" \o ToString(d)

DueMatches(s) ==
    {m \in (DOMAIN s) \X (DOMAIN s) :
        /\ m[1] < m[2]
        /\ s[m[1]] = Calendar
        /\ \A k \in (m[1] + 1)..(m[2] - 1) : s[k] = Space
        /\ DateShaped(s[m[2]])}

DueMatch(s) ==
    IF DueMatches(s) = {} THEN Absent
    ELSE Some(CHOOSE m \in DueMatches(s) : \A n \in DueMatches(s) : m[1] <= n[1])

\* int(group) of a token matching r"\((\d+)%\)", Absent when it does not.
PctOf(tok) ==
    LET hits == {n \in Percentages : n >= 0 /\ PctToken(n) = tok}
    IN  IF hits = {} THEN Absent ELSE Some(CHOOSE n \in hits : TRUE)

\* re.search(r"\((\d+)%\)", text): the position of the first match.
PctMatch(s) ==
    LET hits == {i \in DOMAIN s : PctOf(s[i]) # Absent}
    IN  IF hits = {} THEN Absent ELSE Some(CHOOSE i \in hits : \A j \in hits : i <= j)

\* The url of a token matching the link pattern, Absent when it does not.
UrlOf(tok) ==
    LET hits == {u \in Urls : LinkToken(u) = tok}
    IN  IF hits = {} THEN Absent ELSE Some(CHOOSE u \in hits : TRUE)

\* text[:start].strip() + text[end:].strip()
CutOut(s, start, end) ==
    Strip(SubSeq(s, 1, start - 1)) \o Strip(SubSeq(s, end + 1, Len(s)))

\* The priority step of _parse_md_item: the first glyph found, in the order
\* HIGH, MEDIUM, LOW, sets the priority and every occurrence of it is removed.
FoundPriority(s) ==
    LET has(n) == \E i \in DOMAIN s : s[i] = PriorityGlyph[n]
    IN  IF has("HIGH") THEN "HIGH" ELSE IF has("MEDIUM") THEN "MEDIUM"
        ELSE IF has("LOW") THEN "LOW" ELSE "NONE"

\* markdown._parse_md_item
parse_md_item(item) ==
    LET box   == IF StartsWith(item, <<Checked, Space>>) THEN "x"
                 ELSE IF StartsWith(item, <<Unchecked, Space>>) THEN "o" ELSE ""
        t0    == IF box = "" THEN item ELSE Drop(item, 2)
        task0 == IF box = "x" THEN [NewTask EXCEPT !.percentage = 100] ELSE NewTask
        \* priority
        pri   == FoundPriority(t0)
        t1    == IF pri = "NONE" THEN t0
                 ELSE Strip(SelectSeq(t0, LAMBDA tok : tok # PriorityGlyph[pri]))
        \* due date
        due   == DueMatch(t1)
        t2    == IF due = Absent THEN t1 ELSE CutOut(t1, due[1][1], due[1][2])
        \* percentage
        pct   == PctMatch(t2)
        take  == pct # Absent /\ task0.percentage < 100
        t3    == IF take THEN CutOut(t2, pct[1], pct[1]) ELSE t2
        task  == [percentage |-> IF take THEN PctOf(t2[pct[1]])[1] ELSE task0.percentage,
                  priority   |-> pri,
                  due_date   |-> IF due = Absent THEN Absent
                                 ELSE strptime_date(t1[due[1][2]]),
                  start_date |-> Absent]
        t4    == IF box = "" THEN item ELSE t3
        links == SelectSeq(t4, LAMBDA tok : UrlOf(tok) # Absent)
        rest  == Strip(SelectSeq(t4, LAMBDA tok : UrlOf(tok) = Absent))
    IN  [NewTopicRec(Join(Strip(rest))) EXCEPT
            !.task = IF box = "" THEN Absent ELSE Some(task),
            !.hyperlinks = [i \in DOMAIN links |-> [url |-> UrlOf(links[i])[1], text |-> ""]]]

\* A pop loop that keeps an item of the same indent level on the stack.
RECURSIVE PopDeeperOnly(_, _)
PopDeeperOnly(stack, level) ==
    IF stack # <<>> /\ stack[Len(stack)].level > level
    THEN PopDeeperOnly(SubSeq(stack, 1, Len(stack) - 1), level)
    ELSE stack

\* while list_stack and list_stack[-1][0] >= indent_level: list_stack.pop()
RECURSIVE Pop(_, _)
Pop(stack, level) ==
    IF stack # <<>> /\ stack[Len(stack)].level >= level
    THEN Pop(SubSeq(stack, 1, Len(stack) - 1), level)
    ELSE stack

\* One pass of the section loop of from_markdown over a line.  st holds the
\* root built so far, current_branch and list_stack; a topic is named by its
\* position in the root's tree.
ParseLine(line, st) ==
    LET stripped == Strip(line)
    IN  IF StartsWith(stripped, <<"#", "#", Space>>)
        THEN [root   |-> [st.root EXCEPT !.children =
                             Append(@, NewTopicRec(Join(Strip(Drop(stripped, 3)))))],
              branch |-> Some(<<Len(st.root.children) + 1>>),
              stack  |-> <<>>]
        ELSE IF StartsWith(stripped, <<"-", Space>>) /\ st.branch # Absent
        THEN LET indent == Len(line) - Len(LStrip(line))
                 level  == indent \div 2
                 topic  == parse_md_item(Drop(stripped, 2))
                 kept   == Pop(st.stack, level)
                 ppath  == IF kept # <<>> THEN kept[Len(kept)].path ELSE st.branch[1]
                 par    == NodeAt(st.root, ppath)
             IN  [root   |-> ReplaceAt(st.root, ppath,
                                       [par EXCEPT !.children = Append(@, topic)]),
                  branch |-> st.branch,
                  stack  |-> Append(kept, [level |-> level,
                                           path  |-> Append(ppath, Len(par.children) + 1)])]
        ELSE st

RECURSIVE ParseSections(_, _, _)
ParseSections(lines, i, st) ==
    IF i > Len(lines) THEN st ELSE ParseSections(lines, i + 1, ParseLine(lines[i], st))

\* The frontmatter skip of from_markdown: the index of the first line after
\* the block (past the end when the block is not closed).
AfterFrontmatter(lines) ==
    IF lines # <<>> /\ Strip(lines[1]) = <<"---">>
    THEN LET closing == {i \in 2..Len(lines) : Strip(lines[i]) = <<"---">>}
         IN  IF closing = {} THEN Len(lines) + 2
             ELSE (CHOOSE i \in closing : \A j \in closing : i <= j) + 1
    ELSE 1

\* The H1 search of from_markdown: the index of the first H1 line from i on
\* (past the end when there is none).
H1Index(lines, i) ==
    LET hits == {j \in i..Len(lines) : StartsWith(Strip(lines[j]), <<"#", Space>>)}
    IN  IF hits = {} THEN Len(lines) + 1 ELSE CHOOSE j \in hits : \A k \in hits : j <= k

\* markdown.from_markdown
from_markdown(lines) ==
    LET h    == H1Index(lines, AfterFrontmatter(lines))
        root == IF h <= Len(lines)
                THEN NewTopicRec(Join(Strip(Drop(Strip(lines[h]), 2))))
                ELSE NewTopicRec("")
        st   == ParseSections(lines, h + 1,
                              [root |-> root, branch |-> Absent, stack |-> <<>>])
    IN  [root |-> st.root, title |-> st.root.text, source |-> Absent]

\* ---- the outline state machine: export the edited map, or take outline
\* text from elsewhere, and decode it.

MaxLines == 4

MaxIndent == 4

\* The kind of a line of typed outline text: a second-level heading, or a
\* list item with that many leading spaces.
Heading == -1

LineKinds == {Heading} \cup 0..MaxIndent

Spaces(n) == [k \in 1..n |-> Space]

\* Line i of a typed text; its text names the line.
TypedLine(kind, i) ==
    IF kind = Heading THEN <<"#", "#", Space, "H" \o ToString(i)>>
    ELSE Spaces(kind) \o <<"-", Space, "L" \o ToString(i)>>

\* An H1 line followed by up to MaxLines headings and list items.
TypedOutlines ==
    UNION {{<< <<"#", Space, "R">> >> \o [i \in 1..n |-> TypedLine(f[i], i)] :
              f \in [1..n -> LineKinds]} : n \in 0..MaxLines}

\* Texts with task markup, with frontmatter and without an H1.
SampleOutlines ==
    {<< <<"#", Space, "R">>, <<"#", "#", Space, "B">>,
        <<"-", Space, Unchecked, Space, "t", Space, PctToken(150)>>,
        <<"-", Space, Checked, Space, "u", Space, PctToken(50)>>,
        <<Space, Space, "-", Space, Unchecked, Space, "v", Space, PriorityGlyph.LOW,
          Space, Calendar, Space, BadDate, Space, LinkToken("u1")>> >>,
     << <<"---">>, <<"title: x">>, <<"---">>, <<>>, <<"#", Space, "R">>, <<>>,
        <<"#", "#", Space, "B">>, <<"-", Space, "t">>, <<"-", Space>> >>,
     << <<"---">>, <<"#", Space, "R">>, <<"#", "#", Space, "B">> >>,
     << <<"#", "#", Space, "B">>, <<"-", Space, "t">> >>}

OutlineIdle ==
    /\ omd = <<>>
    /\ oback = Absent

\* text = to_markdown(m, include_frontmatter=fm)
ToMarkdown(fm) ==
    /\ cpc = "edit"
    /\ cpc' = "exported"
    /\ omd' = to_markdown(cmap, fm)
    /\ UNCHANGED <<cmap, cdoc, cback, cedits, oback>>
    /\ UNCHANGED <<treeVars, writeVars>>

\* text = <outline text written by hand or by another tool>
TypeOutline(lines) ==
    /\ cpc = "start"
    /\ cpc' = "typed"
    /\ omd' = lines
    /\ UNCHANGED <<cmap, cdoc, cback, cedits, oback>>
    /\ UNCHANGED <<treeVars, writeVars>>

\* m2 = from_markdown(text)
FromMarkdown ==
    /\ cpc \in {"exported", "typed"}
    /\ cpc' = IF cpc = "exported" THEN "reimported" ELSE "decoded"
    /\ oback' = Some(from_markdown(omd))
    /\ UNCHANGED <<cmap, cdoc, cback, cedits, omd>>
    /\ UNCHANGED <<treeVars, writeVars>>

OutlineNext ==
    \/ NewMap
    \/ \E doc \in SourceDocs : ReadSource(doc)
    \/ \E path \in Paths(cmap.root) : EditAddChild(path, "C")
    \/ \E path \in Paths(cmap.root), txt \in {"", "B"} : EditSetText(path, txt)
    \/ \E path \in Paths(cmap.root) : EditSetTask(path)
    \/ \E path \in Paths(cmap.root), v \in Percentages : EditSetPercentage(path, v)
    \/ \E path \in Paths(cmap.root), pr \in DOMAIN TaskPriority :
          EditSetPriority(path, pr)
    \/ \E path \in Paths(cmap.root), dt \in Datetimes : EditSetDueDate(path, dt)
    \/ \E path \in Paths(cmap.root), url \in Urls : EditAddHyperlink(path, url)
    \/ \E fm \in BOOLEAN : ToMarkdown(fm)
    \/ cpc = "start" /\ \E lines \in TypedOutlines \cup SampleOutlines : TypeOutline(lines)
    \/ FromMarkdown

-----------------------------------------------------------------------------
(* write() against a file system: writer.py                                *)
(*                                                                         *)
(* A file is absent, a container (zip) with named entries, bytes that are  *)
(* no container (junk), or a file opened for writing whose bytes have not  *)
(* all arrived (partial).  The entry Document.xml holds a document, every  *)
(* other entry opaque bytes.                                               *)

\* The paths write() is called with.
CallPaths == {"a.mmap", "a.mmap.bak", "b.mmap"}

\* dest.with_suffix(".mmap.bak"): the last suffix is replaced.
BakPath(p) ==
    CASE p = "a.mmap" -> "a.mmap.bak"
      [] p = "a.mmap.bak" -> "a.mmap.mmap.bak"
      [] p = "b.mmap" -> "b.mmap.bak"

AllPaths == CallPaths \cup {BakPath(p) : p \in CallPaths}

NoEntries == [n \in {} |-> ""]

AbsentFile == [kind |-> "absent", entries |-> NoEntries]

JunkFile == [kind |-> "junk", entries |-> NoEntries]

PartialFile == [kind |-> "partial", entries |-> NoEntries]

ZipFile(entries) == [kind |-> "zip", entries |-> entries]

\* path.exists()
Exists(f) == f.kind # "absent"

\* The document of a stored container, its root topic's text being txt.
StoredDoc(txt) == Document(<<<<[BaseElem EXCEPT !.Text = <<Set(EmptyDict, "PlainText", txt)>>]>>>>, "meta")

\* The files a path may hold when write() is called.
InitialFiles ==
    {AbsentFile,
     JunkFile,
     ZipFile([n \in {"Document.xml", "Preview.png"} |->
                 IF n = "Document.xml" THEN StoredDoc("S1") ELSE "png-1"]),
     ZipFile([n \in {"Document.xml", "Preview.png", "bin/data"} |->
                 IF n = "Document.xml" THEN StoredDoc("S2")
                 ELSE IF n = "Preview.png" THEN "png-2" ELSE "data-2"]),
     ZipFile([n \in {"Document.xml"} |-> Document(<<>>, "meta")]),
     ZipFile([n \in {"Preview.png"} |-> "png-3"])}

\* The root topics of the maps written.
WrittenRoots == {NewTopicRec("N"), [NewTopicRec("N") EXCEPT !.oid = "X9"]}

NoWrite == [root |-> NewTopicRec(""), source |-> "", dest |-> "", backup |-> FALSE]

WriteIdle ==
    /\ fs = [p \in AllPaths |-> AbsentFile]
    /\ fs0 = [p \in AllPaths |-> AbsentFile]
    /\ wcall = NoWrite
    /\ wpc = "setup"
    /\ wfiles = NoEntries
    /\ wlog = <<>>

\* The disk before the call: any file at each call path.
SetupDisk(files) ==
    /\ wpc = "setup"
    /\ wpc' = "idle"
    /\ fs' = [p \in AllPaths |-> IF p \in CallPaths THEN files[p] ELSE AbsentFile]
    /\ UNCHANGED <<fs0, wcall, wfiles, wlog>>
    /\ UNCHANGED <<treeVars, codecVars, outlineVars>>

\* write(mindmap, path, backup=backup) is called; lines 49-55 pick the path.
CallWrite(root, source, dest, backup) ==
    /\ wpc = "idle"
    /\ wcall' = [root |-> root, source |-> source, dest |-> dest, backup |-> backup]
    /\ fs0' = fs
    /\ wpc' = IF source # "" /\ Exists(fs[source]) THEN "update" ELSE "create"
    /\ UNCHANGED <<fs, wfiles, wlog>>
    /\ UNCHANGED <<treeVars, codecVars, outlineVars>>

\* _update_existing, lines 63-66: shutil.copy2(dest, bak)
Backup ==
    /\ wpc = "update"
    /\ wpc' = "read_source"
    /\ IF wcall.backup /\ Exists(fs[wcall.dest])
       THEN /\ fs' = [fs EXCEPT ![BakPath(wcall.dest)] = fs[wcall.dest]]
            /\ wlog' = Append(wlog, "copy")
       ELSE UNCHANGED <<fs, wlog>>
    /\ UNCHANGED <<fs0, wcall, wfiles>>
    /\ UNCHANGED <<treeVars, codecVars, outlineVars>>

\* _update_existing, lines 68-72: every entry of the source is read;
\* BadZipFile when the source is no container.
ReadEntries ==
    /\ wpc = "read_source"
    /\ IF fs[wcall.source].kind = "zip"
       THEN /\ wpc' = "build"
            /\ wfiles' = fs[wcall.source].entries
            /\ wlog' = Append(wlog, "read")
       ELSE /\ wpc' = "raised"
            /\ UNCHANGED <<wfiles, wlog>>
    /\ UNCHANGED <<fs, fs0, wcall>>
    /\ UNCHANGED <<treeVars, codecVars, outlineVars>>

\* _update_existing, lines 74-103: the document entry is rebuilt in memory;
\* KeyError without a Document.xml entry, ValueError without a OneTopic.
BuildUpdate ==
    /\ wpc = "build"
    /\ IF "Document.xml" \notin DOMAIN wfiles
       THEN /\ wpc' = "raised"
            /\ UNCHANGED wfiles
       ELSE IF update_document(wfiles["Document.xml"], wcall.root) = Absent
       THEN /\ wpc' = "raised"
            /\ UNCHANGED wfiles
       ELSE /\ wpc' = "open"
            /\ wfiles' = [wfiles EXCEPT !["Document.xml"] =
                             update_document(@, wcall.root)[1]]
    /\ UNCHANGED <<fs, fs0, wcall, wlog>>
    /\ UNCHANGED <<treeVars, codecVars, outlineVars>>

\* _create_new, lines 112-126: a container holding only the document.
BuildCreate ==
    /\ wpc = "create"
    /\ wpc' = "open"
    /\ wfiles' = [n \in {"Document.xml"} |-> create_document(wcall.root)]
    /\ UNCHANGED <<fs, fs0, wcall, wlog>>
    /\ UNCHANGED <<treeVars, codecVars, outlineVars>>

\* Path.write_bytes, first half: open(dest, "wb") truncates the file.
OpenDest ==
    /\ wpc = "open"
    /\ wpc' = "write"
    /\ fs' = [fs EXCEPT ![wcall.dest] = PartialFile]
    /\ wlog' = Append(wlog, "truncate")
    /\ UNCHANGED <<fs0, wcall, wfiles>>
    /\ UNCHANGED <<treeVars, codecVars, outlineVars>>

\* Path.write_bytes, second half: the bytes of the new container arrive.
WriteDest ==
    /\ wpc = "write"
    /\ wpc' = "done"
    /\ fs' = [fs EXCEPT ![wcall.dest] = ZipFile(wfiles)]
    /\ wlog' = Append(wlog, "write")
    /\ UNCHANGED <<fs0, wcall, wfiles>>
    /\ UNCHANGED <<treeVars, codecVars, outlineVars>>

\* The process is killed while write() runs.
Crash ==
    /\ wpc \in {"update", "create", "read_source", "build", "open", "write"}
    /\ wpc' = "crashed"
    /\ UNCHANGED <<fs, fs0, wcall, wfiles, wlog>>
    /\ UNCHANGED <<treeVars, codecVars, outlineVars>>

WriteNext ==
    \/ \E files \in [CallPaths -> InitialFiles] : SetupDisk(files)
    \/ \E root \in WrittenRoots, source \in CallPaths \cup {""}, dest \in CallPaths,
          backup \in BOOLEAN : CallWrite(root, source, dest, backup)
    \/ Backup
    \/ ReadEntries
    \/ BuildUpdate
    \/ BuildCreate
    \/ OpenDest
    \/ WriteDest
    \/ Crash

-----------------------------------------------------------------------------
(* Specifications                                                          *)

\* Every machine starts from the same state: a fresh MindMap(), no call made.
Init == TreeInit /\ CodecIdle /\ WriteIdle /\ OutlineIdle

SpecTree == Init /\ [][TreeNext]_vars

SpecCodec == Init /\ [][CodecNext]_vars

SpecWrite == Init /\ [][WriteNext]_vars

SpecOutline == Init /\ [][OutlineNext]_vars

-----------------------------------------------------------------------------
(* Properties of the topic tree                                            *)

\* C1: after any sequence of add_child, remove and move_to calls the
\* structure is a tree: every parent chain ends at a parentless topic, no
\* topic is its own ancestor, and no topic reached from the map root through
\* children is itself a parentless root of another structure.
C1_TreeShape ==
    \A t \in used :
        /\ ParentIter(parent, t, MaxTopics) = None
        /\ t \notin Ancestors(parent, t)
        /\ (t \in Subtree(children, MapRoot) /\ t # MapRoot) => parent[t] # None

\* C2: after move_to(x, p), x is the last element of p.children, occurs there
\* exactly once, x.parent is p, and x occurs in no other topic's children.
C2_MoveToPlacesOnce ==
    last.op = "move_to" =>
        LET x == last.topic
            p == last.target
        IN  /\ Len(children[p]) > 0
            /\ children[p][Len(children[p])] = x
            /\ Occurrences(children[p], x) = 1
            /\ parent[x] = p
            /\ \A q \in TopicIds \ {p} : Occurrences(children[q], x) = 0

\* A move of a topic away from a former parent to a different one.
C2_Witness ==
    /\ last.op = "move_to"
    /\ last.from # None
    /\ last.from # last.target
    /\ last.topic # last.target
    /\ Len(children[last.target]) > 1

\* C3: move_to(topic, new_parent) with new_parent the topic itself or one of
\* its descendants fails with StructuralViolation and changes no parent link
\* and no children sequence.
C3_MoveToGuarded ==
    [][\A t \in TopicIds, np \in TopicIds :
          (MoveTo(t, np) /\ (np = t \/ t \in Ancestors(parent, np)))
              => /\ last'.error = "StructuralViolation"
                 /\ parent' = parent
                 /\ children' = children]_vars

\* The topics reached from t through children sequences of one link or more.
Descendants(t) == ChildReach(children, {children[t][i] : i \in DOMAIN children[t]}, MaxTopics)

\* No topic at or below t is reached from itself.
AcyclicBelow(t) == \A s \in Subtree(children, t) : s \notin Descendants(s)

\* The position of topic s in sequence w.
Pos(w, s) == CHOOSE i \in DOMAIN w : w[i] = s

LinksConsistent(par, chi) ==
    \A t \in TopicIds, p \in TopicIds :
        /\ (par[t] = p) <=> (Occurrences(chi[p], t) >= 1)
        /\ Occurrences(chi[p], t) <= 1

\* C19: after any sequence of add_child, remove and move_to calls, t.parent
\* is p if and only if t occurs in p.children, and then exactly once;
\* remove(t) leaves the relative order of t's former siblings and t's own
\* subtree unchanged.
C19_LinksConsistent ==
    [][/\ LinksConsistent(parent', children')
       /\ \A t \in TopicIds :
             (Remove(t) /\ parent[t] # None) =>
                /\ children'[parent[t]] = Without(children[parent[t]], t)
                /\ \A s \in Subtree(children, t) :
                      /\ children'[s] = children[s]
                      /\ s # t => parent'[s] = parent[s]]_vars

-----------------------------------------------------------------------------
(* Properties of the markup codec                                          *)

\* The fields the round trip is to keep, topic by topic, in child order.
RECURSIVE SameContent(_, _)
SameContent(a, b) ==
    /\ a.text = b.text
    /\ (a.task = Absent) <=> (b.task = Absent)
    /\ (a.task # Absent /\ b.task # Absent) =>
          /\ a.task[1].percentage = b.task[1].percentage
          /\ a.task[1].priority = b.task[1].priority
          /\ a.task[1].due_date = b.task[1].due_date
          /\ a.task[1].start_date = b.task[1].start_date
    /\ [i \in DOMAIN a.hyperlinks |-> a.hyperlinks[i].url]
          = [i \in DOMAIN b.hyperlinks |-> b.hyperlinks[i].url]
    /\ Len(a.children) = Len(b.children)
    /\ \A i \in DOMAIN a.children :
          i \in DOMAIN b.children /\ SameContent(a.children[i], b.children[i])

\* C4: writing a map and reading the written document yields a tree of the
\* same shape and child order whose topics have the same text, task
\* presence, percentage, priority, due date, start date and hyperlink URLs.
C4_RoundTrip ==
    cpc = "read" => SameContent(cmap.root, cback[1])

\* Every style blob of tree a is the style blob of the topic at the same
\* position of tree b.
RECURSIVE StyleKept(_, _)
StyleKept(a, b) ==
    /\ a.style_xml # Absent => b.style_xml = a.style_xml
    /\ \A i \in DOMAIN a.children :
          i \in DOMAIN b.children /\ StyleKept(a.children[i], b.children[i])

\* C5: a style blob present after decode is emitted by encode, so that
\* decoding the written document yields the same blob for that topic, also
\* when the topic was not edited.
C5_StyleSurvives ==
    (cpc = "read" /\ cmap.source # Absent) => StyleKept(cmap.root, cback[1])

\* The bag of each decoded topic against the attributes of its element.
RECURSIVE BagVerbatim(_, _)
BagVerbatim(elem, topic) ==
    /\ \A k \in DOMAIN elem.attrib :
          k \in DOMAIN topic.raw_attribs /\ topic.raw_attribs[k] = elem.attrib[k]
    /\ DOMAIN topic.raw_attribs \subseteq DOMAIN elem.attrib
    /\ LET subs == IF elem.SubTopics = <<>> THEN <<>> ELSE elem.SubTopics[1]
       IN  /\ Len(subs) = Len(topic.children)
           /\ \A i \in DOMAIN subs : BagVerbatim(subs[i], topic.children[i])

RECURSIVE BagWithoutId(_, _)
BagWithoutId(elem, topic) ==
    /\ \A k \in DOMAIN elem.attrib \ {"OId"} :
          k \in DOMAIN topic.raw_attribs /\ topic.raw_attribs[k] = elem.attrib[k]
    /\ DOMAIN topic.raw_attribs \subseteq DOMAIN elem.attrib \ {"OId"}
    /\ LET subs == IF elem.SubTopics = <<>> THEN <<>> ELSE elem.SubTopics[1]
       IN  /\ Len(subs) = Len(topic.children)
           /\ \A i \in DOMAIN subs : BagWithoutId(subs[i], topic.children[i])

\* The map as read from its source document, before any edit.
JustDecoded == cpc = "edit" /\ cedits = 0 /\ cmap.source # Absent

\* C6 (as stated): after decoding a topic element the bag holds every
\* attribute of the element except the identifier attribute, which is never
\* a key of the bag.
C6_BagExcludesId ==
    /\ JustDecoded => BagWithoutId(cmap.source[1].OneTopic[1][1], cmap.root)
    /\ cpc = "read" => BagWithoutId(cdoc[1].OneTopic[1][1], cback[1])

\* C6 (amended): after decoding a topic element the bag holds every
\* attribute of the element verbatim, the identifier attribute included: the
\* identifier is a key of the bag exactly when the element carries one.
C6_BagVerbatim ==
    /\ JustDecoded => BagVerbatim(cmap.source[1].OneTopic[1][1], cmap.root)
    /\ cpc = "read" => BagVerbatim(cdoc[1].OneTopic[1][1], cback[1])

\* A decoded topic whose element carries an identifier and another
\* attribute, and a decoded topic whose element carries no identifier.
C6_Witness ==
    /\ JustDecoded
    /\ \E p \in Paths(cmap.root) :
          DOMAIN NodeAt(cmap.root, p).raw_attribs = {"OId", "Dirty"}
    /\ \E p \in Paths(cmap.root) : NodeAt(cmap.root, p).raw_attribs = EmptyDict

\* The Topic element the last write built for the root topic.
WrittenRoot == cdoc[1].OneTopic[1][Len(cdoc[1].OneTopic[1])]

\* The hyperlink elements of elem are those the hyperlinks of topic call
\* for, and decode to the same URLs in the same order; so for the children.
RECURSIVE HyperlinkForms(_, _)
HyperlinkForms(topic, elem) ==
    LET n    == Len(topic.hyperlinks)
        back == parse_topic(elem).hyperlinks
    IN  /\ (elem.Hyperlink # <<>>) <=> (n = 1)
        /\ (elem.HyperlinkGroup # <<>>) <=> (n > 1)
        /\ Len(elem.Hyperlink) <= 1
        /\ Len(elem.HyperlinkGroup) <= 1
        /\ Len(back) = n
        /\ \A i \in 1..n : i \in DOMAIN back /\ back[i].url = topic.hyperlinks[i].url
        /\ \A i \in DOMAIN topic.children :
              /\ elem.SubTopics # <<>>
              /\ i \in DOMAIN elem.SubTopics[1]
              /\ HyperlinkForms(topic.children[i], elem.SubTopics[1][i])

\* C13: encode emits the single hyperlink element iff the topic has exactly
\* one hyperlink, the group element iff it has more than one, neither iff it
\* has none; decoding the encoded topic yields the same URLs in the same
\* order, none duplicated or dropped.
C13_HyperlinkForms ==
    cpc \in {"written", "read"} => HyperlinkForms(cmap.root, WrittenRoot)

\* A topic decoded from both forms at once, three hyperlinks in all, was
\* written, and so was a topic without hyperlinks.
C13_Witness ==
    /\ cpc = "written"
    /\ Len(cmap.root.hyperlinks) = 3
    /\ WrittenRoot.HyperlinkGroup # <<>>
    /\ \E i \in DOMAIN cmap.root.children : cmap.root.children[i].hyperlinks = <<>>

\* The status a percentage stands for.
StatusFor(pct) ==
    CASE pct = 0 -> "NOT_STARTED"
      [] pct > 0 /\ pct < 100 -> "IN_PROGRESS"
      [] pct >= 100 -> "COMPLETE"

\* The status of every task of the tree is the one its percentage stands for.
RECURSIVE StatusFollowsPercentage(_)
StatusFollowsPercentage(topic) ==
    /\ (topic.task # Absent /\ topic.task[1].percentage >= 0) =>
          status(topic.task[1]) = StatusFor(topic.task[1].percentage)
    /\ \A i \in DOMAIN topic.children : StatusFollowsPercentage(topic.children[i])

\* The step assigns v to the percentage of the task at path and to nothing
\* else of that topic.
AssignsPercentageOnly(path, v) ==
    LET before == NodeAt(cmap.root, path)
        after  == NodeAt(cmap'.root, path)
    IN  /\ after.task # Absent
        /\ after.task[1].percentage = v
        /\ v >= 0 => status(after.task[1]) = StatusFor(v)
        /\ after.task[1].priority = before.task[1].priority
        /\ after.task[1].due_date = before.task[1].due_date
        /\ after.task[1].start_date = before.task[1].start_date
        /\ [after EXCEPT !.task = before.task] = before

\* The step leaves the percentage and the status of the task at path alone.
KeepsStatus(path) ==
    LET before == NodeAt(cmap.root, path).task[1]
        after  == NodeAt(cmap'.root, path).task[1]
    IN  /\ after.percentage = before.percentage
        /\ status(after) = status(before)

\* C14: status is a function of the current percentage only (0: not started,
\* 1..99: in progress, 100 and above: complete); after any assignments to
\* percentage and to the other task fields it is that function of the last
\* percentage assigned, and assigning percentage changes no other field.
C14_StatusFromPercentage ==
    [][/\ StatusFollowsPercentage(cmap'.root)
       /\ \A path \in Paths(cmap.root) :
             /\ \A v \in Percentages :
                   EditSetPercentage(path, v) => AssignsPercentageOnly(path, v)
             /\ \A pr \in DOMAIN TaskPriority :
                   EditSetPriority(path, pr) => KeepsStatus(path)
             /\ \A dt \in Datetimes :
                   (EditSetDueDate(path, dt) \/ EditSetStartDate(path, dt))
                      => KeepsStatus(path)]_vars

\* A complete task with a priority after at least one assignment: the
\* percentage and the priority were not both there from the start.
C14_Witness ==
    /\ cpc = "edit"
    /\ cedits >= 1
    /\ cmap.root.task # Absent
    /\ cmap.root.task[1].priority = "HIGH"
    /\ cmap.root.task[1].percentage = 100

\* C18: in every state of a MindMap (fresh, returned by read or by
\* from_markdown, after assignments to the root topic's text) the title of
\* the map equals the text of its root topic.
C18_TitleIsRootText ==
    /\ cmap.title = cmap.root.text
    /\ oback # Absent => oback[1].title = oback[1].root.text

-----------------------------------------------------------------------------
(* Properties of write()                                                   *)

\* The call took the update path and read the source's entries.
WasUpdate == \E i \in DOMAIN wlog : wlog[i] = "read"

\* The call has begun to overwrite the destination.
DestTouched == \E i \in DOMAIN wlog : wlog[i] = "truncate"

\* C7: when write updates an existing container, every entry of the source
\* other than the document entry is in the written destination under the
\* same name with the same bytes, and the destination holds no entry name
\* the source did not hold.
C7_EntriesCopied ==
    (wpc = "done" /\ WasUpdate) =>
        LET src == fs0[wcall.source].entries
            dst == fs[wcall.dest].entries
        IN  /\ \A n \in DOMAIN src \ {"Document.xml"} : n \in DOMAIN dst /\ dst[n] = src[n]
            /\ DOMAIN dst \subseteq DOMAIN src

\* C8: with backup enabled and a file at the destination, a backup copy
\* holding the destination's previous content exists before the destination
\* is overwritten, on the update path and on the create path.
C8_BackupBeforeOverwrite ==
    (wcall.backup /\ Exists(fs0[wcall.dest]) /\ DestTouched) =>
        fs[BakPath(wcall.dest)] = fs0[wcall.dest]

\* C9: if the process crashes during write, the destination holds the
\* complete file it held before the call or the complete new container.
C9_CrashLeavesWholeFile ==
    wpc = "crashed" =>
        \/ fs[wcall.dest] = fs0[wcall.dest]
        \/ fs[wcall.dest] = ZipFile(wfiles)

\* C10: on the update path every entry of the source is read into memory
\* before the call modifies any file on disk, so the entries written are
\* those the source held when write was called.
C10_ReadBeforeModify ==
    /\ \A i \in DOMAIN wlog, j \in DOMAIN wlog :
          (wlog[j] = "read" /\ wlog[i] \in {"copy", "truncate", "write"}) => j < i
    /\ (wpc = "done" /\ WasUpdate) =>
          /\ DOMAIN wfiles = DOMAIN fs0[wcall.source].entries
          /\ \A n \in DOMAIN wfiles \ {"Document.xml"} :
                wfiles[n] = fs0[wcall.source].entries[n]

-----------------------------------------------------------------------------
(* Properties of the outline codec                                         *)

\* What the outline round trip is to keep of a topic and of its descendants,
\* position by position.
RECURSIVE SameOutline(_, _)
SameOutline(a, b) ==
    /\ a.text = b.text
    /\ (a.task = Absent) <=> (b.task = Absent)
    /\ (a.task # Absent /\ b.task # Absent) =>
          /\ status(a.task[1]) = status(b.task[1])
          /\ a.task[1].priority = b.task[1].priority
          /\ a.task[1].due_date = b.task[1].due_date
          /\ a.task[1].percentage = b.task[1].percentage
    /\ Len(a.children) = Len(b.children)
    /\ \A i \in DOMAIN a.children :
          i \in DOMAIN b.children /\ SameOutline(a.children[i], b.children[i])

\* C11: decoding the outline text of a map yields a map in which every topic
\* of the original (the root, the headings, the list items) has a
\* corresponding topic with the same text, task presence and status,
\* priority, due date and percentage.
C11_OutlineRoundTrip ==
    cpc = "reimported" => SameOutline(cmap.root, oback[1].root)

\* The number of leading spaces of a line.
Indentation(line) ==
    CHOOSE n \in 0..Len(line) :
        /\ \A k \in 1..n : line[k] = Space
        /\ n = Len(line) \/ line[n + 1] # Space

\* A line that reads, after its leading spaces, as the marker followed by a
\* text.
HasMarker(line, marker) ==
    LET n == Indentation(line)
    IN  /\ Len(line) > n + Len(marker)
        /\ SubSeq(line, n + 1, n + Len(marker)) = marker
        /\ \E k \in (n + Len(marker) + 1)..Len(line) : line[k] # Space

ItemLines(lines) == {i \in 2..Len(lines) : HasMarker(lines[i], <<"-", Space>>)}

HeadingLines(lines) == {i \in 2..Len(lines) : HasMarker(lines[i], <<"#", "#", Space>>)}

Highest(S) == CHOOSE i \in S : \A j \in S : j <= i

\* The heading line an item line stands under, 0 when there is none.
HeadingOf(lines, i) ==
    LET before == {h \in HeadingLines(lines) : h < i}
    IN  IF before = {} THEN 0 ELSE Highest(before)

IndentLevel(lines, i) == Indentation(lines[i]) \div 2

\* The item lines of the same branch that precede line i with a strictly
\* smaller indent level.
Shallower(lines, i) ==
    {j \in ItemLines(lines) :
        /\ HeadingOf(lines, i) < j
        /\ j < i
        /\ IndentLevel(lines, j) < IndentLevel(lines, i)}

\* The line whose topic the item of line i is to hang under.
ParentLine(lines, i) ==
    IF Shallower(lines, i) = {} THEN HeadingOf(lines, i)
    ELSE Highest(Shallower(lines, i))

\* The text of a typed line: its last token, which names the line.
LineName(lines, i) == lines[i][Len(lines[i])]

\* C12: each list item with indent level k = floor(leading spaces / 2) is
\* appended as the last child of the most recent preceding item of the same
\* branch whose level is strictly less than k, or of the branch heading's
\* topic when there is none; a heading resets the tracking, so no item hangs
\* under an item of an earlier branch.
C12_ItemPlacement ==
    (cpc = "decoded" /\ omd \in TypedOutlines) =>
        LET root     == oback[1].root
            placed   == {i \in ItemLines(omd) : HeadingOf(omd, i) # 0}
            PathOf(i) == CHOOSE p \in Paths(root) :
                            NodeAt(root, p).text = LineName(omd, i)
            LineOf(p) == CHOOSE i \in 2..Len(omd) :
                            LineName(omd, i) = NodeAt(root, p).text
        IN  /\ Cardinality(Paths(root)) = 1 + Cardinality(placed \cup HeadingLines(omd))
            /\ \A i \in placed \cup HeadingLines(omd) :
                  \E p \in Paths(root) : NodeAt(root, p).text = LineName(omd, i)
            /\ \A i \in HeadingLines(omd) : Len(PathOf(i)) = 1
            /\ \A i \in placed :
                  /\ Len(PathOf(i)) >= 2
                  /\ SubSeq(PathOf(i), 1, Len(PathOf(i)) - 1) = PathOf(ParentLine(omd, i))
            /\ \A p \in Paths(root), q \in Paths(root) :
                  (/\ p # <<>>
                   /\ q # <<>>
                   /\ SubSeq(p, 1, Len(p) - 1) = SubSeq(q, 1, Len(q) - 1)
                   /\ p[Len(p)] < q[Len(q)]) => LineOf(p) < LineOf(q)

\* A typed text was decoded in which an item hangs under an item that is not
\* the line just before it.
C12_Witness ==
    /\ cpc = "decoded"
    /\ omd \in TypedOutlines
    /\ \E i \in ItemLines(omd) :
          /\ HeadingOf(omd, i) # 0
          /\ Shallower(omd, i) # {}
          /\ ParentLine(omd, i) < i - 1

\* Every task of the tree has a percentage within 0..100.
RECURSIVE PercentagesInRange(_)
PercentagesInRange(topic) ==
    /\ topic.task # Absent =>
          (topic.task[1].percentage >= 0 /\ topic.task[1].percentage <= 100)
    /\ \A i \in DOMAIN topic.children : PercentagesInRange(topic.children[i])

\* C15: every Task produced by the markup decoder or by the outline decoder
\* has a percentage within 0..100, whatever the TaskPercentage attribute or
\* the percentage parenthetical says.
C15_DecodedPercentageInRange ==
    /\ JustDecoded => PercentagesInRange(cmap.root)
    /\ oback # Absent => PercentagesInRange(oback[1].root)

====
